---- MODULE Spec2Model ----
(***************************************************************************)
(* Model of the world-chunk generator                                      *)
(*   src/backend/fastapi/app/services/generation/steampunk.py              *)
(* generate_chunk and its helpers, as a state machine that runs one call   *)
(* step by step and lets a caller issue several calls in a row.            *)
(*                                                                         *)
(* Modelling notes                                                         *)
(*  - uuid5(ns, key) is modelled as the injective tuple <<"u5", ns, key>>; *)
(*    an id supplied by the caller is <<"given", n>> with n its 128-bit    *)
(*    integer value; None is the empty tuple.                              *)
(*  - strings built by concatenation are tuples of their parts; every name *)
(*    is a triple <<text, text, number>>.                                  *)
(*  - random.Random(seed, stream) is a deterministic sequence: the draws   *)
(*    of a call are chosen freely and written on a tape; a call with the   *)
(*    same arguments replays the tape.                                     *)
(*  - shares and percentages are integers out of 100; round() is Python's  *)
(*    round-half-to-even on exact rationals.                               *)
(*  - line 300 of the source (the sort key of place_in_building) is not    *)
(*    valid Python as written (an unbalanced any( ... )); the model takes  *)
(*    the key it evidently means: 0 when the building's district name or   *)
(*    archetype is among the preferred districts, else 1.                  *)
(***************************************************************************)
EXTENDS Integers, Sequences, FiniteSets, TLC

(* ------------------------------ bounds -------------------------------- *)
\* calls one caller issues in a row
MaxCalls == 2
\* a draw explores the first MaxChoice outcomes of its range
MaxChoice == 2
\* caller-supplied ids are <<"given", 0>> .. <<"given", MaxUuid>>
MaxUuid == 1

(* ------------------------------ helpers ------------------------------- *)
Min(a, b) == IF a < b THEN a ELSE b
Max(a, b) == IF a > b THEN a ELSE b

Range(s) == {s[i] : i \in 1..Len(s)}

RECURSIVE SumSeq(_)
SumSeq(s) == IF s = <<>> THEN 0 ELSE Head(s) + SumSeq(Tail(s))

RECURSIVE Replicate(_, _)
Replicate(x, n) == IF n <= 0 THEN <<>> ELSE <<x>> \o Replicate(x, n - 1)

RECURSIVE Flatten(_)
Flatten(ss) == IF ss = <<>> THEN <<>> ELSE Head(ss) \o Flatten(Tail(ss))

SelectIdx(s, Test(_)) == {i \in 1..Len(s) : Test(s[i])}

\* first index of s satisfying Test, 0 when there is none: next((... ), None)
Least(I) == IF I = {} THEN 0 ELSE CHOOSE i \in I : \A k \in I : i <= k
FirstIdx(s, Test(_)) == Least(SelectIdx(s, Test))

\* s[i], or default when i = 0
AtOr(s, i, default) == IF i = 0 THEN default ELSE s[i]

\* Python 3 round(p/q) for p >= 0, q > 0: round half to even
Round(p, q) ==
  LET f == p \div q
      r == 2 * (p % q)
  IN IF r < q THEN f
     ELSE IF r > q THEN f + 1
     ELSE IF f % 2 = 0 THEN f ELSE f + 1

\* dict.get(k, default) on a sequence of <<key, value>> pairs
Get(pairs, k, default) ==
  AtOr(pairs, FirstIdx(pairs, LAMBDA e : e[1] = k), <<k, default>>)[2]

(* ------------------------------ identity ------------------------------ *)
NoId == <<>>
Given(n) == <<"given", n>>

\* _seed_to_namespace: sha256("steampunk:<seed>") truncated to 128 bits
seed_to_namespace(seed) == <<"steampunk", seed>>

\* _uuid5_ns
uuid5_ns(ns, key) == <<"u5", ns, key>>

Name(a, b, i) == <<a, b, i>>

CountryKey(cname) == <<"country", cname>>
CityKey(cname) == <<"city", cname>>
NodeKey(chunk, node_type, name, parent_id) == <<chunk, node_type, name, parent_id>>
LinkKey(chunk, src_id, dst_id, link_type) == <<chunk, "link", src_id, dst_id, link_type>>

\* _uuid_faction
uuid_faction(ns, chunk, fid) == uuid5_ns(ns, <<chunk, "faction", fid>>)

\* f"{scope_type}:{id}"
ChunkIdOf(scope_type, id) == <<scope_type, id>>

(* ---------------------------- configuration --------------------------- *)
Streams == {"topology", "style", "population", "placement", "factions",
            "country-name", "city-name"}

IndustryChoices == <<"manufacturing", "shipyard", "academia", "mining">>
WealthChoices == <<"low", "medium", "high">>

Industrial == [id |-> "industrial", tags |-> {"smoke"}]
Academic == [id |-> "academic", tags |-> {"books"}]

Factory == [id |-> "factory", base_capacity |-> 3, tags |-> {"work"},
            preferred_districts |-> {"industrial"}]
BoardingHouse == [id |-> "boarding_house", base_capacity |-> 2,
                  tags |-> {"residential"}, preferred_districts |-> {}]
Hall == [id |-> "hall", base_capacity |-> 100, tags |-> {"work"},
         preferred_districts |-> {}]

Smith == [id |-> "smith", category |-> "labor", weight |-> 1,
          requires_facility_tags |-> {}, allowed_building_tags |-> {"work"},
          preferred_districts |-> {}]
Welder == [id |-> "welder", category |-> "labor", weight |-> 1,
           requires_facility_tags |-> {"work"}, allowed_building_tags |-> {"work"},
           preferred_districts |-> {Name("industrial", "", 0)}]
Scholar == [id |-> "scholar", category |-> "academia", weight |-> 1,
            requires_facility_tags |-> {"library"},
            allowed_building_tags |-> {"library"}, preferred_districts |-> {}]

\* needs two facility tags, of which a factory city offers one
Engineer == [id |-> "engineer", category |-> "labor", weight |-> 1,
             requires_facility_tags |-> {"work", "library"},
             allowed_building_tags |-> {"work"}, preferred_districts |-> {}]
Clerk == [id |-> "clerk", category |-> "academia", weight |-> 1,
          requires_facility_tags |-> {}, allowed_building_tags |-> {"work"},
          preferred_districts |-> {}]

Guild == [id |-> "guild", admits_categories |-> {"labor"}, base |-> 1,
          city |-> << <<"industrial", 1>> >>, district_tags |-> << <<"work", 1>> >>]
Cabal == [id |-> "cabal", admits_categories |-> {"academia"}, base |-> 0,
          city |-> << >>, district_tags |-> << >>]

\* a small world: one city of two smiths in one factory district
BaseCfg ==
  [ countries |-> 1,
    cities_total |-> 1,
    city_size_range |-> <<2, 2>>,
    district_per_city_range |-> <<1, 1>>,
    building_count_target |-> 1,
    city_density_levels |-> <<"dense">>,
    name_countries |-> <<"Albion">>,
    name_cities |-> <<"Brasswick">>,
    given_names |-> <<"Ada">>,
    surnames |-> <<"Cog">>,
    technologies |-> <<"steam">>,
    district_archetypes |-> <<Industrial>>,
    buildings |-> <<Factory>>,
    professions |-> <<Smith>>,
    factions |-> <<Guild>>,
    ratios |-> << [key |-> <<"manufacturing", "low">>,
                   categories |-> << <<"labor", 100>> >>] >>,
    max_same_profession_pct_per_district |-> 50,
    overflow_building |-> "boarding_house",
    create_overflow_if_missing |-> FALSE ]

\* a city of six or seven NPCs around three small factories: the diversity
\* test and the capacities both come into play
CrowdedCfg ==
  [BaseCfg EXCEPT !.city_size_range = <<6, 7>>,
                  !.building_count_target = 3]

\* as CrowdedCfg, with overflow buildings created on demand
CrowdedOverflowCfg == [CrowdedCfg EXCEPT !.create_overflow_if_missing = TRUE]

\* two professions share the category; seven or eight NPCs planned
MixedCfg ==
  [BaseCfg EXCEPT !.city_size_range = <<7, 7>>,
                  !.building_count_target = 3,
                  !.professions = <<Smith, Welder, Scholar>>,
                  !.factions = <<Guild, Cabal>>,
                  !.ratios = << [key |-> <<"manufacturing", "low">>,
                                 categories |-> << <<"labor", 100>> >>],
                                [key |-> <<"shipyard", "low">>,
                                 categories |-> << <<"academia", 50>>,
                                                   <<"labor", 50>> >>] >>]

\* more NPCs than the one factory holds; boarding houses may be drawn
FullCfg ==
  [BaseCfg EXCEPT !.city_size_range = <<4, 5>>,
                  !.building_count_target = 2,
                  !.district_archetypes = <<Academic>>,
                  !.buildings = <<Factory, BoardingHouse>>]

\* as FullCfg, with overflow buildings created on demand
FullOverflowCfg == [FullCfg EXCEPT !.create_overflow_if_missing = TRUE]

\* a city may have no district at all
BareCfg ==
  [BaseCfg EXCEPT !.district_per_city_range = <<0, 1>>,
                  !.create_overflow_if_missing = TRUE]

\* two categories work in the same factories; only labor has a faction that
\* carries weight
GuildhallCfg ==
  [BaseCfg EXCEPT !.city_size_range = <<4, 4>>,
                  !.building_count_target = 2,
                  !.professions = <<Smith, Engineer, Clerk>>,
                  !.factions = <<Guild, Cabal>>,
                  !.ratios = << [key |-> <<"manufacturing", "low">>,
                                 categories |-> << <<"labor", 50>>,
                                                   <<"academia", 50>> >>] >>]

\* two districts, of either archetype, hold six factories; welders prefer the
\* industrial one
PreferenceCfg ==
  [BaseCfg EXCEPT !.district_per_city_range = <<2, 2>>,
                  !.district_archetypes = <<Academic, Industrial>>,
                  !.building_count_target = 6,
                  !.professions = <<Welder>>]

\* two countries share three cities, or one city
WorldCfg ==
  [BaseCfg EXCEPT !.countries = 2,
                  !.cities_total = 3,
                  !.building_count_target = 3,
                  !.city_size_range = <<1, 1>>]

SparseWorldCfg ==
  [WorldCfg EXCEPT !.cities_total = 1,
                   !.name_countries = <<"Albion", "Caledon">>]

\* the scenario of the specification: fifty NPCs, one template of capacity 100,
\* one category; a profession may fill a district entirely
ScenarioCfg ==
  [BaseCfg EXCEPT !.city_size_range = <<50, 50>>,
                  !.buildings = <<Hall>>,
                  !.max_same_profession_pct_per_district = 100]

\* the scenario with the diversity limit at one half
ScenarioStrictCfg == [ScenarioCfg EXCEPT !.max_same_profession_pct_per_district = 50]

ScenarioOverflowCfg == [ScenarioCfg EXCEPT !.create_overflow_if_missing = TRUE]

Configs == {BaseCfg, CrowdedCfg, MixedCfg, FullCfg, FullOverflowCfg, BareCfg,
            CrowdedOverflowCfg, GuildhallCfg, PreferenceCfg, WorldCfg,
            SparseWorldCfg}
RepeatConfigs == {BaseCfg, MixedCfg, FullOverflowCfg, BareCfg, SparseWorldCfg}
WorldConfigs == {WorldCfg, SparseWorldCfg}
ScenarioConfigs == {ScenarioCfg, ScenarioStrictCfg, ScenarioOverflowCfg}

Seeds == {1234}
ScopeTypes == {"country", "city", "continent"}
ScopeIds == {NoId} \cup {Given(n) : n \in 0..MaxUuid}

(* ------------------------------- state -------------------------------- *)
VARIABLES
  cfg,             \* the parsed configuration (read-only)
  pc,              \* position of the running call
  calls,           \* calls issued so far
  args,            \* seed, scope_type, scope_node_id of the running call
  error,           \* the exception a call raised, "" when none
  chunk_id, nodes, links,
  pos, tape, tapeKey,      \* draws made on each stream; random.Random's output
  scope_root,      \* country_node_id / city_node_id
  cities_to_make, city_ids, ni,
  dcount, district_ids, di, built, b_target, j,
  snap, queue, capacity_left, prof_in_district, created,
  result,          \* what the call returned
  prev,            \* what the previous call returned, when its arguments were the same
  made,            \* country id -> cities created, over the calls so far
  planned,         \* city id -> sum of the planned headcounts
  weights          \* the weights of the last faction_for call, <<>> when none

vars == <<cfg, pc, calls, args, error, chunk_id, nodes, links, pos, tape, tapeKey,
          scope_root, cities_to_make, city_ids, ni, dcount, district_ids, di,
          built, b_target, j, snap, queue, capacity_left, prof_in_district,
          created, result, prev, made, planned, weights>>

topoVars == <<cities_to_make, city_ids, dcount, district_ids, di, built, b_target, j>>
npcVars == <<ni, snap, queue, capacity_left, prof_in_district, created, planned,
             weights>>
callVars == <<cfg, calls, args, chunk_id, tapeKey, result, prev, made>>

NoArgs == [seed |-> 0, scope_type |-> "", scope_node_id |-> NoId]
NoResult == [ok |-> FALSE, chunk_id |-> <<>>, nodes |-> <<>>, links |-> <<>>,
             scope_node_id |-> NoId]
NoSnap == [districts |-> <<>>, buildings |-> <<>>, by_district |-> <<>>,
           facility_tags |-> {}]

NoAttrs == [tech |-> "", wealth |-> "", dominant_industry |-> "", density |-> "",
            population_target |-> 0, archetype |-> "", tags |-> {},
            building_id |-> "", capacity |-> 0, profession |-> "",
            category |-> "", faction_id |-> "", id |-> ""]

Node(nid, node_type, name, parent_id, attrs) ==
  [id |-> nid, node_type |-> node_type, name |-> name, parent_id |-> parent_id,
   attrs |-> attrs]

\* generators kept from one call to the next would resume where they stopped
StaleStreams == pos
\* _rng(seed, stream): a new generator per call, at its first draw
FreshStreams == [s \in Streams |-> 0]

EmptyTape == [s \in Streams |-> <<>>]

InitWith(cfgs) ==
  /\ cfg \in cfgs
  /\ pc = "idle"
  /\ calls = 0
  /\ args = NoArgs
  /\ error = ""
  /\ chunk_id = <<>>
  /\ nodes = <<>>
  /\ links = <<>>
  /\ pos = [s \in Streams |-> 0]
  /\ tape = EmptyTape
  /\ tapeKey = NoArgs
  /\ scope_root = NoId
  /\ cities_to_make = 0
  /\ city_ids = <<>>
  /\ ni = 0
  /\ dcount = 0
  /\ district_ids = <<>>
  /\ di = 0
  /\ built = 0
  /\ b_target = 0
  /\ j = 0
  /\ snap = NoSnap
  /\ queue = <<>>
  /\ capacity_left = <<>>
  /\ prof_in_district = <<>>
  /\ created = 0
  /\ result = NoResult
  /\ prev = NoResult
  /\ made = {}
  /\ planned = <<>>
  /\ weights = <<>>

Init == InitWith(Configs)

(* ------------------------------- draws -------------------------------- *)
\* the outcomes explored of a draw over lo..hi
Choices(lo, hi) == lo..Min(hi, lo + MaxChoice - 1)

\* the k-th draw an action makes on stream s: what the tape holds there, if any
Draw(s, k, lo, hi) ==
  LET p == pos[s] + k
      D == Choices(lo, hi)
  IN IF p <= Len(tape[s]) /\ tape[s][p] \in D THEN {tape[s][p]} ELSE D

\* the tape and positions after an action drew vs on stream s
Put(t, p, vs) == SubSeq(t, 1, p) \o vs \o SubSeq(t, p + Len(vs) + 1, Len(t))

Drawn(t, ps, s, vs) == [t EXCEPT ![s] = Put(@, ps[s], vs)]
Advanced(ps, s, vs) == [ps EXCEPT ![s] = @ + Len(vs)]

(* --------------------------- generate_chunk --------------------------- *)
ns == seed_to_namespace(args.seed)

\* int(uuid.UUID(id)): the 128-bit value of an id; for a derived id, its hash
UuidInt(id) ==
  IF Len(id) = 2 THEN id[2]
  ELSE id[2][2] + (CHOOSE i \in 1..Len(cfg.name_countries) :
                      cfg.name_countries[i] = id[3][2])

\* a chunk id choice whose last branch takes any other scope type as 'city'
ChunkAnyScope(a, cname) ==
  IF a.scope_type = "country"
  THEN ChunkIdOf("country",
         IF a.scope_node_id = NoId
         THEN uuid5_ns(seed_to_namespace(a.seed), CountryKey(cname))
         ELSE a.scope_node_id)
  ELSE ChunkIdOf("city",
         IF a.scope_node_id = NoId
         THEN uuid5_ns(seed_to_namespace(a.seed), CityKey(cname))
         ELSE a.scope_node_id)

\* lines 49-67: the chunk id of a call, <<>> when the scope type is rejected
ChooseChunkId(a, cname) ==
  IF a.scope_type = "country"
  THEN ChunkIdOf("country",
         IF a.scope_node_id = NoId
         THEN uuid5_ns(seed_to_namespace(a.seed), CountryKey(cname))
         ELSE a.scope_node_id)
  ELSE IF a.scope_type = "city"
  THEN ChunkIdOf("city",
         IF a.scope_node_id = NoId
         THEN uuid5_ns(seed_to_namespace(a.seed), CityKey(cname))
         ELSE a.scope_node_id)
  ELSE <<>>

NamePool(a) ==
  IF a.scope_type = "country" THEN cfg.name_countries ELSE cfg.name_cities

NameStream(a) == IF a.scope_type = "country" THEN "country-name" ELSE "city-name"

\* generate_chunk, lines 33-102: load the configuration, choose the chunk id,
\* create the accumulators and the five streams
Call(seed, scope_type, scope_node_id) ==
  LET a == [seed |-> seed, scope_type |-> scope_type, scope_node_id |-> scope_node_id]
      same == a = tapeKey
      t0 == IF same THEN tape ELSE EmptyTape
      p0 == FreshStreams
      s == NameStream(a)
      pool == NamePool(a)
      D == IF p0[s] + 1 <= Len(t0[s]) /\ t0[s][p0[s] + 1] \in Choices(1, Len(pool))
           THEN {t0[s][p0[s] + 1]} ELSE Choices(1, Len(pool))
  IN
  /\ pc \in {"idle", "done", "raised"}
  /\ calls < MaxCalls
  /\ calls' = calls + 1
  /\ args' = a
  /\ tapeKey' = a
  /\ prev' = IF same /\ pc = "done" THEN result ELSE NoResult
  /\ result' = NoResult
  /\ nodes' = <<>>
  /\ links' = <<>>
  /\ scope_root' = NoId
  /\ cities_to_make' = 0 /\ city_ids' = <<>> /\ ni' = 0
  /\ dcount' = 0 /\ district_ids' = <<>> /\ di' = 0
  /\ built' = 0 /\ b_target' = 0 /\ j' = 0
  /\ snap' = NoSnap /\ queue' = <<>> /\ capacity_left' = <<>>
  /\ prof_in_district' = <<>> /\ created' = 0 /\ planned' = <<>>
  /\ weights' = <<>>
  /\ UNCHANGED <<cfg, made>>
  /\ IF scope_node_id = NoId /\ scope_type \in {"country", "city"}
     THEN \E i \in D :
            /\ chunk_id' = ChooseChunkId(a, pool[i])
            /\ tape' = Drawn(t0, p0, s, <<i>>)
            /\ pos' = Advanced(p0, s, <<i>>)
            /\ pc' = "root"
            /\ error' = ""
     ELSE /\ chunk_id' = ChooseChunkId(a, "")
          /\ tape' = t0
          /\ pos' = p0
          /\ pc' = IF chunk_id' = <<>> THEN "raised" ELSE "root"
          /\ error' = IF chunk_id' = <<>> THEN "ValueError" ELSE ""

\* add_node (lines 73-84), add (158-161), add_node_local (289-292): the id of a
\* node that is given no fixed id
DerivedId(node_type, name, parent_id) ==
  uuid5_ns(ns, NodeKey(chunk_id, node_type, name, parent_id))

\* lines 115-121: the cities of a country
CityCount(country_node_id) ==
  LET total_countries == cfg.countries
      total_cities == cfg.cities_total
      base == total_cities \div total_countries
      remainder == total_cities % total_countries
      country_index == UuidInt(country_node_id) % total_countries
  IN base + (IF country_index < remainder THEN 1 ELSE 0)

\* the draws of a city's attributes on the topology stream, after `before` draws
CityDraws(before) ==
  {<<i, w, d>> : i \in Draw("topology", before + 1, 1, Len(IndustryChoices)),
                 w \in Draw("topology", before + 2, 1, Len(WealthChoices)),
                 d \in Draw("topology", before + 3, 1, Len(cfg.city_density_levels))}

CityAttrs(tv, p) ==
  [NoAttrs EXCEPT !.dominant_industry = IndustryChoices[tv[1]],
                  !.wealth = WealthChoices[tv[2]],
                  !.density = cfg.city_density_levels[tv[3]],
                  !.population_target = p]

\* lines 104-122: the country node and its number of cities
MakeCountry ==
  /\ pc = "root"
  /\ args.scope_type = "country"
  /\ LET noid == args.scope_node_id = NoId
         names == IF noid THEN Draw("topology", 1, 1, Len(cfg.name_countries)) ELSE {0}
         k == IF noid THEN 1 ELSE 0
     IN \E r \in names, w \in Draw("topology", k + 1, 1, Len(WealthChoices)),
           t \in Draw("style", 1, 1, Len(cfg.technologies)) :
          LET tv == IF noid THEN <<r, w>> ELSE <<w>>
              cid == IF noid THEN uuid5_ns(ns, CountryKey(cfg.name_countries[r]))
                     ELSE args.scope_node_id
              country_name == IF noid THEN Name(cfg.name_countries[r], "", 0)
                              ELSE Name("Country", "", 0)
          IN /\ nodes' = Append(nodes, Node(cid, "country", country_name, NoId,
                           [NoAttrs EXCEPT !.tech = cfg.technologies[t],
                                           !.wealth = WealthChoices[w]]))
             /\ scope_root' = cid
             /\ cities_to_make' = CityCount(cid)
             /\ tape' = Drawn(Drawn(tape, pos, "topology", tv), pos, "style", <<t>>)
             /\ pos' = Advanced(Advanced(pos, "topology", tv), "style", <<t>>)
             /\ pc' = IF CityCount(cid) = 0 THEN "return" ELSE "city"
  /\ city_ids' = <<>>
  /\ ni' = 1
  /\ UNCHANGED <<callVars, error, links, dcount, district_ids, di, built, b_target, j,
                 snap, queue, capacity_left, prof_in_district, created, planned,
                 weights>>

\* lines 125-133: one city of the country
MakeCity ==
  /\ pc = "city"
  /\ Len(city_ids) < cities_to_make
  /\ \E c \in Draw("topology", 1, 1, Len(cfg.name_cities)), tv \in CityDraws(1),
        p \in Draw("population", 1, cfg.city_size_range[1], cfg.city_size_range[2]) :
       LET cname == Name(cfg.name_cities[c], "", Len(city_ids) + 1)
           city_id == DerivedId("city", cname, scope_root)
       IN /\ nodes' = Append(nodes, Node(city_id, "city", cname, scope_root,
                                         CityAttrs(tv, p)))
          /\ city_ids' = Append(city_ids, city_id)
          /\ tape' = Drawn(Drawn(tape, pos, "topology", <<c>> \o tv),
                           pos, "population", <<p>>)
          /\ pos' = Advanced(Advanced(pos, "topology", <<c>> \o tv), "population", <<p>>)
  /\ pc' = "contents"
  /\ UNCHANGED <<callVars, error, links, scope_root, cities_to_make, ni, dcount,
                 district_ids, di, built, b_target, j, snap, queue, capacity_left,
                 prof_in_district, created, planned,
                 weights>>

\* lines 141-149: the orphan city of a city chunk
MakeOrphanCity ==
  /\ pc = "root"
  /\ args.scope_type # "country"
  /\ LET noid == args.scope_node_id = NoId
         names == IF noid THEN Draw("topology", 1, 1, Len(cfg.name_cities)) ELSE {0}
         k == IF noid THEN 1 ELSE 0
     IN \E r \in names, tv \in CityDraws(k),
           p \in Draw("population", 1, cfg.city_size_range[1], cfg.city_size_range[2]) :
          LET all == IF noid THEN <<r>> \o tv ELSE tv
              cname == IF noid THEN Name(cfg.name_cities[r], "", 0)
                       ELSE Name("City", "", 0)
              city_node_id == IF noid THEN DerivedId("city", cname, NoId)
                              ELSE args.scope_node_id
          IN /\ nodes' = Append(nodes, Node(city_node_id, "city", cname, NoId,
                                            CityAttrs(tv, p)))
             /\ scope_root' = city_node_id
             /\ city_ids' = <<city_node_id>>
             /\ tape' = Drawn(Drawn(tape, pos, "topology", all), pos, "population", <<p>>)
             /\ pos' = Advanced(Advanced(pos, "topology", all), "population", <<p>>)
  /\ cities_to_make' = 1
  /\ ni' = 1
  /\ pc' = "contents"
  /\ UNCHANGED <<callVars, error, links, dcount, district_ids, di, built, b_target, j,
                 snap, queue, capacity_left, prof_in_district, created, planned,
                 weights>>

(* ----------------------- _generate_city_contents ---------------------- *)
\* where generate_chunk goes on after a city's contents: the next city of the
\* country (line 125), or the NPC loop (line 136; line 151 for a city chunk)
AfterContents ==
  IF args.scope_type = "country" /\ Len(city_ids) < cities_to_make
  THEN "city" ELSE "npcs"

\* str.replace("_", " ").title() of a template or faction id; the ids of the
\* configurations below stay distinct under it
Title(id) == id

\* line 181
per_city == Max(1, cfg.building_count_target \div Max(1, cfg.cities_total))

\* lines 194-196: the templates a district of archetype arch draws from
Candidates(arch) ==
  LET pref == SelectSeq(cfg.buildings, LAMBDA b : arch \in b.preferred_districts)
  IN IF pref = <<>> THEN cfg.buildings ELSE pref

\* line 200: int(round(base_capacity * uniform(0.9, 1.1)))
CapLo(base) == Round(9 * base, 10)
CapHi(base) == Round(11 * base, 10)

\* lines 164-166: the number of districts of the city
GenCityContents ==
  /\ pc = "contents"
  /\ \E dc \in Draw("topology", 1, cfg.district_per_city_range[1],
                    cfg.district_per_city_range[2]) :
       /\ dcount' = dc
       /\ tape' = Drawn(tape, pos, "topology", <<dc>>)
       /\ pos' = Advanced(pos, "topology", <<dc>>)
       /\ pc' = IF dc = 0 THEN AfterContents ELSE "district"
  /\ district_ids' = <<>>
  /\ di' = 1
  /\ built' = 0
  /\ UNCHANGED <<callVars, error, nodes, links, scope_root, cities_to_make, city_ids,
                 ni, b_target, j, snap, queue, capacity_left, prof_in_district,
                 created, planned,
                 weights>>

\* lines 168-177: one district
MakeDistrict ==
  /\ pc = "district"
  /\ \E a \in Draw("topology", 1, 1, Len(cfg.district_archetypes)) :
       LET arch == cfg.district_archetypes[a]
           i == Len(district_ids)
           city_id == city_ids[Len(city_ids)]
           dname == Name(arch.id, "District", i + 1)
           did == DerivedId("district", dname, city_id)
       IN /\ nodes' = Append(nodes, Node(did, "district", dname, city_id,
                               [NoAttrs EXCEPT !.archetype = arch.id,
                                               !.tags = arch.tags]))
          /\ district_ids' = Append(district_ids, <<did, arch.id>>)
          /\ tape' = Drawn(tape, pos, "topology", <<a>>)
          /\ pos' = Advanced(pos, "topology", <<a>>)
          /\ pc' = IF i + 1 = dcount THEN "bdistrict" ELSE "district"
  /\ UNCHANGED <<callVars, error, links, scope_root, cities_to_make, city_ids, ni,
                 dcount, di, built, b_target, j, snap, queue, capacity_left,
                 prof_in_district, created, planned,
                 weights>>

\* lines 191-193: the building target of the next district
DistrictLoop ==
  /\ pc = "bdistrict"
  /\ \E bt \in Draw("topology", 1, 5, 20) :
       /\ b_target' = bt
       /\ tape' = Drawn(tape, pos, "topology", <<bt>>)
       /\ pos' = Advanced(pos, "topology", <<bt>>)
  /\ j' = 0
  /\ pc' = "building"
  /\ UNCHANGED <<callVars, error, nodes, links, scope_root, cities_to_make, city_ids,
                 ni, dcount, district_ids, di, built, snap, queue, capacity_left,
                 prof_in_district, created, planned,
                 weights>>

\* lines 197-210: one building, and the two breaks
MakeBuilding ==
  /\ pc = "building"
  /\ LET did == district_ids[di][1]
         candidates == Candidates(district_ids[di][2])
     IN \E c \in Draw("topology", 1, 1, Len(candidates)) :
        \E cap \in Draw("topology", 2, CapLo(candidates[c].base_capacity),
                        CapHi(candidates[c].base_capacity)) :
          LET bcfg == candidates[c]
              bname == Name(Title(bcfg.id), "", j + 1)
          IN /\ nodes' = Append(nodes,
                           Node(DerivedId("building", bname, did), "building", bname, did,
                                [NoAttrs EXCEPT !.building_id = bcfg.id,
                                                !.capacity = cap,
                                                !.tags = bcfg.tags]))
             /\ tape' = Drawn(tape, pos, "topology", <<c, cap>>)
             /\ pos' = Advanced(pos, "topology", <<c, cap>>)
  /\ built' = built + 1
  /\ IF built + 1 >= per_city
     THEN pc' = AfterContents /\ UNCHANGED <<di, j>>
     ELSE IF j + 1 < b_target
     THEN pc' = "building" /\ j' = j + 1 /\ UNCHANGED di
     ELSE IF di < Len(district_ids)
     THEN pc' = "bdistrict" /\ di' = di + 1 /\ UNCHANGED j
     ELSE pc' = AfterContents /\ UNCHANGED <<di, j>>
  /\ UNCHANGED <<callVars, error, links, scope_root, cities_to_make, city_ids, ni,
                 dcount, district_ids, b_target, snap, queue, capacity_left,
                 prof_in_district, created, planned,
                 weights>>

(* ----------------------- _generate_npcs_for_city ---------------------- *)
\* _collect_city_snapshot, lines 215-231
collect_city_snapshot(ns_, city_id) ==
  LET districts == SelectSeq(ns_, LAMBDA n : n.node_type = "district"
                                             /\ n.parent_id = city_id)
      dids == {districts[i].id : i \in 1..Len(districts)}
      buildings == SelectSeq(ns_, LAMBDA n : n.node_type = "building"
                                             /\ n.parent_id \in dids)
  IN [districts |-> districts,
      buildings |-> buildings,
      by_district |-> [i \in 1..Len(districts) |-> districts[i].id],
      facility_tags |-> UNION {buildings[i].attrs.tags : i \in 1..Len(buildings)}]

\* lines 242-245: the ratio entry of the city, the first entry when none matches
RatioFor(dom_ind, wealth) ==
  AtOr(cfg.ratios, FirstIdx(cfg.ratios, LAMBDA r : r.key = <<dom_ind, wealth>>),
       cfg.ratios[1])

\* lines 252-260: the professions of a category the city's facilities allow
Allowed(cat, facility_tags) ==
  SelectSeq(cfg.professions,
            LAMBDA p : /\ p.category = cat
                       /\ \/ p.requires_facility_tags = {}
                          \/ p.requires_facility_tags \cap facility_tags # {})

\* lines 263-272: prof_counts, as <<profession id, headcount>> in insertion order
ProfCounts(npc_target, cat_shares, facility_tags) ==
  LET PerCat(cs) ==
        LET allowed == Allowed(cs[1], facility_tags)
            count_cat == Round(npc_target * cs[2], 100)
            wsum == SumSeq([i \in 1..Len(allowed) |-> allowed[i].weight])
            weight_sum == IF wsum = 0 THEN 1 ELSE wsum
        IN [i \in 1..Len(allowed) |->
              <<allowed[i].id, Round(count_cat * allowed[i].weight, weight_sum)>>]
  IN Flatten([c \in 1..Len(cat_shares) |-> PerCat(cat_shares[c])])

\* line 367
Profession(prof_id) ==
  cfg.professions[FirstIdx(cfg.professions, LAMBDA p : p.id = prof_id)]

\* dict.get(key, 0) and dict[key] = v on capacity_left and prof_in_district
GetOr0(f, k) == IF k \in DOMAIN f THEN f[k] ELSE 0
SetKey(f, k, v) == [x \in (DOMAIN f) \cup {k} |-> IF x = k THEN v ELSE f[x]]

\* line 309: the placements recorded in district d
TotalInDistrict(pid, d) ==
  SumSeq([i \in 1..Len(cfg.professions) |-> GetOr0(pid, <<d, cfg.professions[i].id>>)])

\* line 310: the diversity test that skips a building
DiversitySkips(pid, d, prof_id) ==
  LET cur == GetOr0(pid, <<d, prof_id>>)
      t == TotalInDistrict(pid, d)
      total_in_d == IF t = 0 THEN 1 ELSE t
  IN /\ (cur + 1) * 100 > cfg.max_same_profession_pct_per_district * total_in_d
     /\ total_in_d > 5

\* lines 325-332
NoDistrict == Node(NoId, "", Name("", "", 0), NoId, NoAttrs)

DistrictOf(did) ==
  AtOr(snap.districts, FirstIdx(snap.districts, LAMBDA d : d.id = did), NoDistrict)

district_arch(did) == DistrictOf(did).attrs.archetype

district_name(did) == DistrictOf(did).name

\* line 300 (as meant): is the building in a preferred district; a preference
\* is a district name, or an archetype id written Name(id, "", 0)
Preferred(b, district_pref) ==
  \/ district_name(b.parent_id) \in district_pref
  \/ Name(district_arch(b.parent_id), "", 0) \in district_pref

\* the candidates left in snapshot order, whatever the preference
Unsorted(cands, district_pref) == cands
\* lines 296-301: the buildings place_in_building tries, in order
PreferredFirst(cands, district_pref) ==
  IF district_pref = {} THEN cands
  ELSE SelectSeq(cands, LAMBDA b : Preferred(b, district_pref))
       \o SelectSeq(cands, LAMBDA b : ~Preferred(b, district_pref))

CandidateBuildings(p) ==
  PreferredFirst(SelectSeq(snap.buildings,
                           LAMBDA b : p.allowed_building_tags \cap b.attrs.tags # {}),
                 p.preferred_districts)

\* a room test that ignores capacity_left
AlwaysRoom(cl, b) == TRUE
\* lines 304 and 316: has building b room left
HasRoom(cl, b) == GetOr0(cl, b.id) > 0

\* lines 312-314 and 318-321: building b takes the NPC
Taken(b, p, cl, pid) ==
  [b_id |-> b.id,
   capacity_left |-> [cl EXCEPT ![b.id] = @ - 1],
   prof_in_district |-> SetKey(pid, <<b.parent_id, p.id>>,
                               GetOr0(pid, <<b.parent_id, p.id>>) + 1)]

\* lines 315-322: the overflow step, o the first overflow building with room
Overflow(o, p, cl, pid) ==
  IF o = 0 THEN [b_id |-> NoId, capacity_left |-> cl, prof_in_district |-> pid]
  ELSE Taken(snap.buildings[o], p, cl, pid)

\* lines 302-322: i the first candidate with room that passes the diversity test
Placed(cands, i, p, cl, pid) ==
  IF i # 0 THEN Taken(cands[i], p, cl, pid)
  ELSE Overflow(FirstIdx(snap.buildings,
                         LAMBDA b : /\ b.attrs.building_id = cfg.overflow_building
                                    /\ HasRoom(cl, b)),
                p, cl, pid)

FirstFit(cands, p, cl, pid) ==
  Placed(cands,
         FirstIdx(cands, LAMBDA b : /\ HasRoom(cl, b)
                                    /\ ~DiversitySkips(pid, b.parent_id, p.id)),
         p, cl, pid)

\* place_in_building, lines 294-322: the building taken (NoId when none) and the
\* counters after it
place_in_building(p, cl, pid) == FirstFit(CandidateBuildings(p), p, cl, pid)

\* line 386: the capacity of a synthesized overflow building
OverflowCapacity == 100

RECURSIVE TagSum(_, _)
TagSum(f, T) ==
  IF T = {} THEN 0
  ELSE LET t == CHOOSE x \in T : TRUE
       IN Get(f.district_tags, t, 0) + TagSum(f, T \ {t})

\* lines 344-347: the weight of faction f for a district of archetype arch whose
\* buildings carry tags
Weight(f, arch, tags) == f.base + Get(f.city, arch, 0) + TagSum(f, tags)

TagsOf(bs) == UNION {bs[i].attrs.tags : i \in 1..Len(bs)}

Weighted(fs, arch, tags) ==
  [i \in 1..Len(fs) |-> <<fs[i].id, Weight(fs[i], arch, tags)>>]

\* lines 337-349 of faction_for: the factions that admit the category, with
\* their weight in district did, those of weight <= 0 left out
FactionWeights(npc_cat, did) ==
  SelectSeq(Weighted(SelectSeq(cfg.factions, LAMBDA f : npc_cat \in f.admits_categories),
                     district_arch(did),
                     TagsOf(SelectSeq(snap.buildings, LAMBDA b : b.parent_id = did))),
            LAMBDA fw : fw[2] > 0)

\* line 277
CapacityOf(bs) ==
  [id \in {bs[i].id : i \in 1..Len(bs)} |->
     bs[FirstIdx(bs, LAMBDA x : x.id = id)].attrs.capacity]

Headcounts(prof_counts) == [i \in 1..Len(prof_counts) |-> prof_counts[i][2]]

\* lines 366-369: the NPCs to create, one entry per NPC, in creation order
Expand(prof_counts) ==
  Flatten([i \in 1..Len(prof_counts) |-> Replicate(prof_counts[i][1], prof_counts[i][2])])

\* lines 236-289: the plan and the scratch counters of one city
NpcStart ==
  /\ pc = "npcs"
  /\ \E city_node \in {nodes[FirstIdx(nodes, LAMBDA n : n.id = city_ids[ni])]},
        sn \in {collect_city_snapshot(nodes, city_ids[ni])} :
       \E prof_counts \in {ProfCounts(city_node.attrs.population_target,
                                      RatioFor(city_node.attrs.dominant_industry,
                                               city_node.attrs.wealth).categories,
                                      sn.facility_tags)} :
          /\ snap' = sn
          /\ queue' = Expand(prof_counts)
          /\ planned' = Append(planned, <<city_ids[ni], SumSeq(Headcounts(prof_counts))>>)
          /\ capacity_left' = CapacityOf(sn.buildings)
          /\ pc' = IF SumSeq(Headcounts(prof_counts)) = 0 THEN "factions" ELSE "place"
  /\ prof_in_district' = <<>>
  /\ created' = 0
  /\ weights' = <<>>
  /\ UNCHANGED <<callVars, error, nodes, links, pos, tape, scope_root, topoVars, ni>>

NpcNode(npc_id, npc_name, parent, p, faction_id) ==
  Node(npc_id, "npc", npc_name, parent,
       [NoAttrs EXCEPT !.profession = p.id, !.category = p.category,
                       !.faction_id = faction_id])

\* _add_link, lines 424-426
Link(src_id, dst_id, link_type) ==
  [id |-> uuid5_ns(ns, LinkKey(chunk_id, src_id, dst_id, link_type)),
   src_id |-> src_id, dst_id |-> dst_id, link_type |-> link_type]

\* line 393: the district faction_for is asked about: the parent of the building
\* when it is one of the snapshot, else the city
FactionDistrict(b_id, city_id) ==
  AtOr(snap.buildings, FirstIdx(snap.buildings, LAMBDA b : b.id = b_id),
       [parent_id |-> city_id]).parent_id

\* lines 392-405: the NPC's node and link, its faction drawn among weights
AppendNpc(names, npc_name, npc_id, parent, p, nodes1, ws) ==
  \E k \in (IF ws = <<>> THEN {0} ELSE Draw("factions", 1, 1, Len(ws))) :
     \E faction_id \in {IF k = 0 THEN "" ELSE ws[k][1]} :
       /\ weights' = ws
       /\ nodes' = Append(nodes1, NpcNode(npc_id, npc_name, parent, p, faction_id))
       /\ links' = IF k = 0 THEN links
                   ELSE Append(links, Link(npc_id, uuid_faction(ns, chunk_id, faction_id),
                                           "member_of"))
       /\ pos' = Advanced(Advanced(pos, "population", names),
                          "factions", IF k = 0 THEN <<>> ELSE <<k>>)
       /\ tape' = Drawn(Drawn(tape, pos, "population", names),
                        pos, "factions", IF k = 0 THEN <<>> ELSE <<k>>)

\* lines 392-405, for an NPC whose parent is decided
CreateNpc(names, npc_name, p, b_id, city_id, nodes1, cl, pid) ==
  /\ AppendNpc(names, npc_name,
               DerivedId("npc", npc_name, IF b_id # NoId THEN b_id ELSE city_id),
               IF b_id # NoId THEN b_id ELSE city_id, p, nodes1,
               IF b_id # NoId
               THEN FactionWeights(p.category, FactionDistrict(b_id, city_id))
               ELSE <<>>)
  /\ capacity_left' = cl
  /\ prof_in_district' = pid
  /\ created' = created + 1
  /\ queue' = Tail(queue)
  /\ pc' = IF Tail(queue) = <<>> THEN "factions" ELSE "place"
  /\ error' = ""

OverflowName == Name("Boarding House Overflow", "", 0)

\* lines 379-387
OverflowNode(any_d) ==
  Node(DerivedId("building", OverflowName, any_d), "building", OverflowName, any_d,
       [NoAttrs EXCEPT !.building_id = cfg.overflow_building,
                       !.capacity = OverflowCapacity,
                       !.tags = {"residential", "overflow"}])

\* lines 375-390: an overflow building is created for the NPC
CreateOverflow(names, npc_name, p, city_id, r) ==
  IF snap.by_district = <<>>
  THEN \* line 377: next(iter(...)) of an empty dict
       /\ pc' = "raised"
       /\ error' = "StopIteration"
       /\ pos' = Advanced(pos, "population", names)
       /\ tape' = Drawn(tape, pos, "population", names)
       /\ UNCHANGED <<nodes, links, queue, capacity_left, prof_in_district, created,
                      weights>>
  ELSE \E ob \in {OverflowNode(snap.by_district[1])} :
         CreateNpc(names, npc_name, p, ob.id, city_id, Append(nodes, ob),
                   SetKey(r.capacity_left, ob.id, OverflowCapacity), r.prof_in_district)

\* lines 369-405: one NPC: its name, its place, its faction, its node and link
PlaceNpc ==
  /\ pc = "place"
  /\ \E g \in Draw("population", 1, 1, Len(cfg.given_names)),
        s \in Draw("population", 2, 1, Len(cfg.surnames)),
        p \in {Profession(Head(queue))} :
       \E r \in {place_in_building(p, capacity_left, prof_in_district)} :
          IF r.b_id = NoId /\ cfg.create_overflow_if_missing
          THEN CreateOverflow(<<g, s>>, Name(cfg.given_names[g], cfg.surnames[s], 0),
                              p, city_ids[ni], r)
          ELSE CreateNpc(<<g, s>>, Name(cfg.given_names[g], cfg.surnames[s], 0),
                         p, r.b_id, city_ids[ni], nodes, r.capacity_left,
                         r.prof_in_district)
  /\ UNCHANGED <<callVars, scope_root, topoVars, ni, snap, planned>>

\* lines 407-419: a node for every configured faction that has none yet
EnsureFactions ==
  /\ pc = "factions"
  /\ LET missing == SelectSeq(cfg.factions,
                      LAMBDA f : \A i \in 1..Len(nodes) :
                                   nodes[i].id # uuid_faction(ns, chunk_id, f.id))
     IN nodes' = nodes \o
          [i \in 1..Len(missing) |->
             Node(uuid_faction(ns, chunk_id, missing[i].id), "faction",
                  Name(Title(missing[i].id), "", 0), NoId,
                  [NoAttrs EXCEPT !.id = missing[i].id])]
  /\ ni' = ni + 1
  /\ pc' = IF ni + 1 <= Len(city_ids) THEN "npcs" ELSE "return"
  /\ UNCHANGED <<callVars, error, links, pos, tape, scope_root, topoVars, snap, queue,
                 capacity_left, prof_in_district, created, planned,
                 weights>>

CityNodes(ns_) == SelectSeq(ns_, LAMBDA n : n.node_type = "city")

\* line 154: the chunk returned
Return ==
  /\ pc = "return"
  /\ result' = [ok |-> TRUE, chunk_id |-> chunk_id, nodes |-> nodes, links |-> links,
                scope_node_id |-> scope_root]
  /\ made' = IF args.scope_type = "country"
             THEN {m \in made : m[1] # scope_root}
                  \cup {<<scope_root, Len(CityNodes(nodes))>>}
             ELSE made
  /\ pc' = "done"
  /\ UNCHANGED <<cfg, calls, args, error, chunk_id, nodes, links, pos, tape, tapeKey,
                 scope_root, topoVars, npcVars, prev>>

(* ------------------------- api_generate_chunk ------------------------- *)
NodeWrites(r) ==
  [i \in 1..Len(r.nodes) |->
     [kind |-> "node", id |-> r.nodes[i].id,
      refs |-> IF r.nodes[i].parent_id = NoId THEN {} ELSE {r.nodes[i].parent_id}]]

LinkWrites(r) ==
  [i \in 1..Len(r.links) |->
     [kind |-> "link", id |-> r.links[i].id,
      refs |-> {r.links[i].src_id, r.links[i].dst_id}]]

\* an upsert that writes the links first
LinksBeforeNodes(r) == LinkWrites(r) \o NodeWrites(r)
\* main.py lines 90-118: the rows written for a chunk, in the order written,
\* each with the ids of the rows it references
UpsertOrder(r) == NodeWrites(r) \o LinkWrites(r)

\* the steps of a running call
Step ==
  \/ MakeCountry
  \/ MakeCity
  \/ MakeOrphanCity
  \/ GenCityContents
  \/ MakeDistrict
  \/ DistrictLoop
  \/ MakeBuilding
  \/ NpcStart
  \/ PlaceNpc
  \/ EnsureFactions
  \/ Return

\* a caller's first call, with any arguments
FirstCall ==
  /\ calls = 0
  /\ \E seed \in Seeds, scope_type \in ScopeTypes, scope_node_id \in ScopeIds :
       Call(seed, scope_type, scope_node_id)

\* the same call again
Recall ==
  /\ calls > 0
  /\ Call(args.seed, args.scope_type, args.scope_node_id)

\* the next country of the world, one not generated yet
NextCountry ==
  /\ calls > 0
  /\ pc = "done"
  /\ args.scope_type = "country"
  /\ \E scope_node_id \in ScopeIds :
       /\ scope_node_id # args.scope_node_id
       /\ \A m \in made : m[1] # scope_node_id
       /\ Cardinality(made) < cfg.countries
       /\ Call(args.seed, "country", scope_node_id)

\* one call
Next == FirstCall \/ Step
Spec == Init /\ [][Next]_vars

\* a call and its repetitions
NextRepeat == FirstCall \/ Recall \/ Step
SpecRepeat == InitWith(RepeatConfigs) /\ [][NextRepeat]_vars

\* the countries of a world, generated one after the other
NextWorld == FirstCall \/ NextCountry \/ Step
SpecWorld == InitWith(WorldConfigs) /\ [][NextWorld]_vars

\* the scenario of the specification
SpecScenario == InitWith(ScenarioConfigs) /\ [][Next]_vars

(* ------------------------------- claims ------------------------------- *)
OfType(ns_, node_type) == SelectSeq(ns_, LAMBDA n : n.node_type = node_type)
Ids(ns_) == {ns_[i].id : i \in 1..Len(ns_)}
NodePairs(ns_) == {<<ns_[i].id, ns_[i].attrs>> : i \in 1..Len(ns_)}
LinkPairs(ls) == {<<ls[i].id, ls[i].src_id, ls[i].dst_id, ls[i].link_type>> :
                    i \in 1..Len(ls)}
ChildrenOf(ns_, node_type, parent_id) ==
  SelectSeq(ns_, LAMBDA n : n.node_type = node_type /\ n.parent_id = parent_id)

RECURSIVE SumCities(_)
SumCities(M) ==
  IF M = {} THEN 0
  ELSE LET m == CHOOSE x \in M : TRUE IN m[2] + SumCities(M \ {m})

ValidScope == args.scope_type \in {"country", "city"}

\* C1: the returned chunk_id is scope_type + ":" + the returned scope_node_id,
\* and that id is the id of the scope root node among the returned nodes.
C1_ChunkIdNamesRoot ==
  result.ok =>
    /\ result.chunk_id = ChunkIdOf(args.scope_type, result.scope_node_id)
    /\ \E i \in 1..Len(result.nodes) :
         /\ result.nodes[i].id = result.scope_node_id
         /\ result.nodes[i].node_type = args.scope_type

\* C2: two runs with the same configuration, seed, scope_type and scope_node_id
\* return the same chunk_id, the same (node id, attrs) pairs and the same links.
C2_SameArgsSameChunk ==
  (result.ok /\ prev.ok) =>
    /\ result.chunk_id = prev.chunk_id
    /\ result.scope_node_id = prev.scope_node_id
    /\ NodePairs(result.nodes) = NodePairs(prev.nodes)
    /\ LinkPairs(result.links) = LinkPairs(prev.links)

C2_Witness ==
  /\ result.ok
  /\ prev.ok
  /\ calls = 2
  /\ result.links # <<>>
  /\ OfType(result.nodes, "npc") # <<>>

\* C3: once each of the world's countries has been generated, the cities
\* created sum to cities_total.
C3_CitiesSumToTotal ==
  Cardinality(made) = cfg.countries => SumCities(made) = cfg.cities_total

\* C4: in any district holding more than 5 placed NPCs, no profession's share
\* of the district's placements exceeds max_same_profession_pct_per_district.
C4_DiversityBound ==
  pc \in {"place", "factions"} =>
    \A i \in 1..Len(snap.by_district), k \in 1..Len(cfg.professions) :
      TotalInDistrict(prof_in_district, snap.by_district[i]) > 5 =>
        GetOr0(prof_in_district, <<snap.by_district[i], cfg.professions[k].id>>) * 100
          <= cfg.max_same_profession_pct_per_district
               * TotalInDistrict(prof_in_district, snap.by_district[i])

\* C5: a building created by the facility stage never has more NPC nodes
\* parented to it than its capacity attribute.
C5_CapacityRespected ==
  \A i \in 1..Len(nodes) :
    (nodes[i].node_type = "building" /\ nodes[i].name # OverflowName) =>
      Len(ChildrenOf(nodes, "npc", nodes[i].id)) <= nodes[i].attrs.capacity

\* a facility building is full and an NPC had to go to the city
C5_Witness ==
  /\ \E i \in 1..Len(nodes) :
       /\ nodes[i].node_type = "building" /\ nodes[i].name # OverflowName
       /\ nodes[i].attrs.capacity > 0
       /\ Len(ChildrenOf(nodes, "npc", nodes[i].id)) = nodes[i].attrs.capacity
  /\ \E i \in 1..Len(nodes) :
       nodes[i].node_type = "npc" /\ nodes[i].parent_id \in Range(city_ids)

\* C6: with scope_type 'country' or 'city' the call always completes: no data
\* gap makes it raise.
C6_NeverRaises == ValidScope => pc # "raised"

\* C7: every configured faction is a faction node of every returned chunk.
C7_EveryFactionHasNode ==
  result.ok =>
    \A k \in 1..Len(cfg.factions) :
      \E i \in 1..Len(result.nodes) :
        /\ result.nodes[i].node_type = "faction"
        /\ result.nodes[i].attrs.id = cfg.factions[k].id

\* C8: when the NPC loop of a city is over, however it ended, the NPC records
\* appended for the city are as many as the planned headcounts sum to.
C8_NoNpcDropped ==
  (pc \in {"factions", "raised"} /\ planned # <<>>) =>
    created = planned[Len(planned)][2]

ScenarioCall == args.scope_type = "city" /\ args.scope_node_id = NoId

\* C9: the scenario's chunk holds one city, at least one district,
\* at least one building, 50 NPCs, and every NPC has a building as parent.
C9_ScenarioAllInBuildings ==
  (result.ok /\ ScenarioCall) =>
    /\ Len(OfType(result.nodes, "city")) = 1
    /\ Len(OfType(result.nodes, "district")) >= 1
    /\ Len(OfType(result.nodes, "building")) >= 1
    /\ Len(OfType(result.nodes, "npc")) = 50
    /\ \A i \in 1..Len(result.nodes) :
         result.nodes[i].node_type = "npc" =>
           result.nodes[i].parent_id \in Ids(OfType(result.nodes, "building"))

\* C10: a call with a scope_type other than 'country' or 'city' raises the
\* configuration error before any node or link exists, and returns no chunk.
C10_BadScopeFailsFirst ==
  (calls > 0 /\ ~ValidScope) =>
    /\ pc = "raised"
    /\ error = "ValueError"
    /\ nodes = <<>>
    /\ links = <<>>
    /\ ~result.ok

C10_Witness ==
  /\ pc = "raised"
  /\ error = "ValueError"
  /\ args.scope_type = "continent"

MemberLinks(ls, src_id) ==
  SelectSeq(ls, LAMBDA l : l.src_id = src_id /\ l.link_type = "member_of")

LastNpc == nodes # <<>> /\ nodes[Len(nodes)].node_type = "npc"

\* C11: an NPC's faction_id, when set, names a configured faction that admits
\* the NPC's category and whose weight in the pick was positive; member_of
\* links leave an NPC exactly when its faction_id is set, and go to the node of
\* that faction.
C11_FactionEligibleAndLinked ==
  /\ (LastNpc /\ nodes[Len(nodes)].attrs.faction_id # "") =>
       \E k \in 1..Len(weights), f \in Range(cfg.factions) :
         /\ weights[k][1] = nodes[Len(nodes)].attrs.faction_id
         /\ weights[k][2] > 0
         /\ f.id = weights[k][1]
         /\ nodes[Len(nodes)].attrs.category \in f.admits_categories
  /\ result.ok =>
       \A i \in 1..Len(result.nodes) :
         result.nodes[i].node_type = "npc" =>
           IF result.nodes[i].attrs.faction_id = ""
           THEN MemberLinks(result.links, result.nodes[i].id) = <<>>
           ELSE /\ MemberLinks(result.links, result.nodes[i].id) # <<>>
                /\ \A l \in Range(MemberLinks(result.links, result.nodes[i].id)) :
                     \E m \in 1..Len(result.nodes) :
                       /\ result.nodes[m].id = l.dst_id
                       /\ result.nodes[m].node_type = "faction"
                       /\ result.nodes[m].attrs.id = result.nodes[i].attrs.faction_id

\* the buildings of the snapshot that step 1 may use for profession p: tag
\* compatible, with room, passing the diversity test
StepOne(p) ==
  {b \in Range(snap.buildings) :
     /\ p.allowed_building_tags \cap b.attrs.tags # {}
     /\ GetOr0(capacity_left, b.id) > 0
     /\ ~DiversitySkips(prof_in_district, b.parent_id, p.id)}

\* the buildings step 2 may use: of the overflow type, with room
StepTwo ==
  {b \in Range(snap.buildings) :
     /\ b.attrs.building_id = cfg.overflow_building
     /\ GetOr0(capacity_left, b.id) > 0}

NpcAppended ==
  /\ pc = "place"
  /\ Len(nodes') > Len(nodes)
  /\ nodes'[Len(nodes')].node_type = "npc"

ParentDecided(p, parent) ==
  IF StepOne(p) # {}
  THEN \E b \in StepOne(p) :
         /\ b.id = parent
         /\ (\E c \in StepOne(p) : Preferred(c, p.preferred_districts))
              => Preferred(b, p.preferred_districts)
  ELSE IF StepTwo # {}
  THEN \E b \in StepTwo : b.id = parent
  ELSE IF cfg.create_overflow_if_missing
  THEN /\ Len(nodes') = Len(nodes) + 2
       /\ nodes'[Len(nodes) + 1].node_type = "building"
       /\ nodes'[Len(nodes) + 1].attrs.building_id = cfg.overflow_building
       /\ nodes'[Len(nodes) + 1].id = parent
  ELSE parent = city_ids[ni]

NodeOf(ns_, nid) == ns_[CHOOSE i \in 1..Len(ns_) : ns_[i].id = nid]

\* the weights the specification gives the factions for an NPC of category cat
\* in building b_id: over the district that contains the building
DistrictWeights(cat, b_id) ==
  LET d == NodeOf(nodes, NodeOf(nodes, b_id).parent_id)
      tags == TagsOf(ChildrenOf(nodes, "building", d.id))
      admitted == SelectSeq(cfg.factions, LAMBDA f : cat \in f.admits_categories)
  IN SelectSeq([i \in 1..Len(admitted) |->
                  <<admitted[i].id,
                    admitted[i].base + Get(admitted[i].city, d.attrs.archetype, 0)
                      + TagSum(admitted[i], tags)>>],
               LAMBDA fw : fw[2] > 0)

\* C13: for an NPC parented to a building, the weights used for its faction
\* pick are, for each faction admitting its category, base + influence of the
\* archetype of the building's district + influence of the tags of that
\* district's buildings, those not positive left out.
C13_WeightsOfBuildingDistrict ==
  (LastNpc /\ nodes[Len(nodes)].parent_id \in Ids(OfType(nodes, "building"))) =>
    weights = DistrictWeights(nodes[Len(nodes)].attrs.category,
                              nodes[Len(nodes)].parent_id)

\* C14: a profession is planned only if it requires no facility tag or all the
\* tags it requires are among the city's facility tags, and only if its
\* category is in the ratio entry of the city.
C14_PlannedOnlyIfAllTags ==
  pc = "place" =>
    \A i \in 1..Len(queue) :
      /\ Profession(queue[i]).requires_facility_tags \subseteq snap.facility_tags
      /\ \E c \in Range(RatioFor(NodeOf(nodes, city_ids[ni]).attrs.dominant_industry,
                                 NodeOf(nodes, city_ids[ni]).attrs.wealth).categories) :
           c[1] = Profession(queue[i]).category

\* C15: no two node records of a returned chunk have the same id.
C15_NodeIdsDistinct ==
  result.ok =>
    \A i, k \in 1..Len(result.nodes) :
      i # k => result.nodes[i].id # result.nodes[k].id

\* C16: in the order the chunk is written, nodes in list order and then links,
\* every row written references only node rows written before it.
C16_ReferencesWrittenFirst ==
  result.ok =>
    \A k \in 1..Len(UpsertOrder(result)) :
      \A ref \in UpsertOrder(result)[k].refs :
        \E m \in 1..(k - 1) :
          /\ UpsertOrder(result)[m].kind = "node"
          /\ UpsertOrder(result)[m].id = ref

\* a returned chunk with member links and an NPC in a synthesized overflow
\* building
C16_Witness ==
  /\ result.ok
  /\ result.links # <<>>
  /\ \E i, k \in 1..Len(result.nodes) :
       /\ result.nodes[i].node_type = "npc"
       /\ result.nodes[k].id = result.nodes[i].parent_id
       /\ result.nodes[k].name = OverflowName

====
